---------------------------- MODULE Spec2Model ----------------------------
(***************************************************************************)
(* Model of the sle infrastructure stack: the app entry point, the         *)
(* InfraStack constructor and createInfraPipeline (src/index.ts), and the  *)
(* stage-by-stage run of the pipeline that the stack declares.             *)
(*                                                                         *)
(* Strings are sequences of one-character strings, so that template        *)
(* strings are concatenations and IAM wildcards are matched character by   *)
(* character.  A CloudFormation pseudo parameter or attribute that is      *)
(* resolved only at deploy time is one opaque element of such a sequence.  *)
(***************************************************************************)
EXTENDS Naturals, Sequences, FiniteSets, TLC

(* ------------------------------- state -------------------------------- *)
VARIABLES
    pc,               \* the statement the build is about to run
    caller,           \* "bin" (the entry point) or "direct" (another caller)
    context,          \* the 'environment' context value of the app
    environment,      \* props.environment
    id,               \* the stack id
    names,            \* the physical names declared so far
    buildVars,        \* the CodeBuild project's environment variables
    codeBuildPolicy,  \* statements of InfraCodeBuildServiceRole
    pipelinePolicy,   \* statements of InfraCodePipelineExecutionRole
    stages,           \* the stages of InfraPipeline
    outputs,          \* the CfnOutputs
    deployed,         \* what the previous build declared, if there was one
    execState,        \* state of the pipeline execution
    execLog           \* the stages the execution has completed, in order

vars == <<pc, caller, context, environment, id, names, buildVars, codeBuildPolicy,
          pipelinePolicy, stages, outputs, deployed, execState, execLog>>

(* ------------------------------ bounds -------------------------------- *)
\* environment tokens of every length up to MaxEnvLen over EnvChars
MaxEnvLen == 2

\* the characters of the short tokens: a lower-case letter, a digit, the hyphen
EnvChars == {"d", "2", "-"}

\* lengths of the long lower-case tokens, on both sides of the bucket limit
LongEnvLens == {42, 43, 44}

(* ----------------------------- strings -------------------------------- *)
RECURSIVE Rep(_, _)
Rep(c, n) == IF n = 0 THEN <<>> ELSE <<c>> \o Rep(c, n - 1)

RECURSIVE SeqsUpTo(_)
SeqsUpTo(n) ==
    IF n = 0 THEN {<<>>}
    ELSE LET S == SeqsUpTo(n - 1)
         IN  S \cup {Append(s, c) : s \in {t \in S : Len(t) = n - 1}, c \in EnvChars}

\* the tokens the spec's scenarios and the prefix case name
SampleEnvs == {<<"d","e","v">>, <<"p","r","o","d">>, <<"d","e","v","-","2">>}

\* tokens with an upper-case letter or an underscore
OddEnvs == {<<"D">>, <<"d","_">>, <<"D","e","v">>}

Envs ==
    SeqsUpTo(MaxEnvLen) \cup {Rep("d", n) : n \in LongEnvLens}
        \cup SampleEnvs \cup OddEnvs

\* tryGetContext returns undefined when the key is not set
Undefined == <<"undefined">>

ContextValues == Envs \cup {Undefined}

\* values a caller other than the entry point passes to the exported class
DirectEnvs == {<<>>, <<"d","e","v">>, <<"p","r","o","d">>}

\* JavaScript's a || b on string-or-undefined operands
Or(a, b) == IF a = Undefined \/ a = <<>> THEN b ELSE a

\* this.region and this.account of an environment-agnostic stack
Region == <<"${AWS::Region}">>
Account == <<"${AWS::AccountId}">>

(* ------------------------- IAM wildcard match ------------------------- *)
\* the index of the first "*" of p, or 0 when p has none
FirstStar(p) ==
    IF \E i \in DOMAIN p : p[i] = "*"
    THEN CHOOSE i \in DOMAIN p : p[i] = "*" /\ \A j \in 1..(i - 1) : p[j] # "*"
    ELSE 0

\* s matches the pattern p, where "*" stands for any substring: the text
\* before the first "*" is a prefix of s and the rest of the pattern matches
\* some suffix of what follows
RECURSIVE Matches(_, _)
Matches(p, s) ==
    LET i == FirstStar(p)
    IN  IF i = 0 THEN p = s
        ELSE /\ Len(s) >= i - 1
             /\ SubSeq(s, 1, i - 1) = SubSeq(p, 1, i - 1)
             /\ \E k \in (i - 1)..Len(s) :
                    Matches(SubSeq(p, i + 1, Len(p)), SubSeq(s, k + 1, Len(s)))

\* t occurs in s as a substring
Contains(s, t) ==
    \E k \in 0..(Len(s) - Len(t)) : SubSeq(s, k + 1, k + Len(t)) = t

(* --------------------------- derived names ---------------------------- *)
TableName == <<"s","c","h","o","o","l","-","l","i","c","e","n","s","e","s","-","t","a","b","l","e">>

InfraArtifactBucketName(e) == <<"s","l","e","-">> \o e \o <<"-","i","n","f","r","a","-","a","r","t","i","f","a","c","t","s">>

\* the packaging bucket under another suffix
PackagingBucketNameOtherSuffix(e) == <<"s","l","e","-">> \o e \o <<"-","p","a","c","k","a","g","i","n","g">>

InfraPackagingBucketName(e) == <<"s","l","e","-">> \o e \o <<"-","p","a","c","k","a","g","i","n","g","-","b","u","c","k","e","t">>

InfraGitHubConnectionName(e) == <<"s","l","e","-">> \o e \o <<"-","g","i","t","-","i","n","f","r","a","-","c","o","n","n">>

InfraCodeBuildProjectName(e) == <<"s","l","e","-">> \o e \o <<"-","i","n","f","r","a","-","c","o","d","e","b","u","i","l","d">>

\* the pipeline name without the environment token
PipelineNameWithoutEnvironment(e) == <<"s","l","e","-","i","n","f","r","a","-","p","i","p","e","l","i","n","e">>

InfraPipelineName(e) == <<"s","l","e","-">> \o e \o <<"-","i","n","f","r","a","-","p","i","p","e","l","i","n","e">>

InfraStackName(e) == <<"s","l","e","-">> \o e \o <<"-","i","n","f","r","a","-","c","f">>

InfraChangeSetName(e) == <<"s","l","e","-">> \o e \o <<"-","i","n","f","r","a","-","c","h","a","n","g","e","s","e","t">>

TemplatePath(e) == <<"s","l","e","-","i","n","f","r","a","s","t","r","u","c","t","u","r","e","-">> \o e \o <<".","t","e","m","p","l","a","t","e",".","j","s","o","n">>

StackId(e) == <<"s","l","e","-","i","n","f","r","a","s","t","r","u","c","t","u","r","e","-">> \o e

(* ------------------------- resolved attributes ------------------------ *)
\* bucket.bucketArn
BucketArn(name) == <<"a","r","n",":","a","w","s",":","s","3",":",":",":">> \o name

\* connection.attrConnectionArn: the platform assigns the connection id
ConnectionArn ==
    <<"a","r","n",":","a","w","s",":","c","o","d","e","s","t","a","r","-","c","o","n","n","e","c","t","i","o","n","s",":">> \o Region \o <<":">> \o Account
        \o <<":","c","o","n","n","e","c","t","i","o","n","/">> \o <<"${ConnectionId}">>

\* project.projectArn
ProjectArn(name) ==
    <<"a","r","n",":","a","w","s",":","c","o","d","e","b","u","i","l","d",":">> \o Region \o <<":">> \o Account \o <<":","p","r","o","j","e","c","t","/">> \o name

\* the ARN of a pipeline, a stack and a CodeBuild log group of the given name
PipelineArn(name) ==
    <<"a","r","n",":","a","w","s",":","c","o","d","e","p","i","p","e","l","i","n","e",":">> \o Region \o <<":">> \o Account \o <<":">> \o name

StackArn(name) ==
    <<"a","r","n",":","a","w","s",":","c","l","o","u","d","f","o","r","m","a","t","i","o","n",":">> \o Region \o <<":">> \o Account \o <<":","s","t","a","c","k","/">>
        \o name \o <<"/">> \o <<"${StackGuid}">>

LogGroupArn(project) ==
    <<"a","r","n",":","a","w","s",":","l","o","g","s",":">> \o Region \o <<":">> \o Account
        \o <<":","l","o","g","-","g","r","o","u","p",":","/","a","w","s","/","c","o","d","e","b","u","i","l","d","/">> \o project

(* ------------------------- policy statements -------------------------- *)
Statement(sid, actions, resources) ==
    [sid |-> sid, actions |-> actions, resources |-> resources]

CodeBuildLogsResource(e) ==
    <<"a","r","n",":","a","w","s",":","l","o","g","s",":">> \o Region \o <<":">> \o Account
        \o <<":","l","o","g","-","g","r","o","u","p",":","/","a","w","s","/","c","o","d","e","b","u","i","l","d","/","s","l","e","-">> \o e \o <<"-","i","n","f","r","a","-","c","o","d","e","b","u","i","l","d","*">>

CodeBuildLogsStatement(e) ==
    Statement("",
        <<"logs:CreateLogGroup", "logs:CreateLogStream", "logs:PutLogEvents",
          "logs:DescribeLogStreams">>,
        <<CodeBuildLogsResource(e)>>)

CodeBuildS3Statement(artifactBucket, packagingBucket) ==
    Statement("",
        <<"s3:GetObject", "s3:PutObject", "s3:GetObjectVersion", "s3:ListBucket">>,
        <<BucketArn(artifactBucket), BucketArn(artifactBucket) \o <<"/","*">>,
          BucketArn(packagingBucket), BucketArn(packagingBucket) \o <<"/","*">>>>)

CodeBuildCloudFormationStatement ==
    Statement("",
        <<"cloudformation:ValidateTemplate", "cloudformation:DescribeStacks",
          "cloudformation:PackageType">>,
        <<<<"*">>>>)

PassRoleResource(e) == <<"a","r","n",":","a","w","s",":","i","a","m",":",":">> \o Account \o <<":","r","o","l","e","/","s","l","e","-">> \o e \o <<"-","*">>

CodeBuildPassRoleStatement(e) ==
    Statement("", <<"iam:PassRole">>, <<PassRoleResource(e)>>)

PipelineStackResource(e) ==
    <<"a","r","n",":","a","w","s",":","c","l","o","u","d","f","o","r","m","a","t","i","o","n",":">> \o Region \o <<":">> \o Account
        \o <<":","s","t","a","c","k","/","s","l","e","-">> \o e \o <<"-","*">>

PipelineStackPermission(e) ==
    Statement("PipelineStackPermission",
        <<"cloudformation:CreateStack", "cloudformation:DeleteStack",
          "cloudformation:RollbackStack", "cloudformation:DescribeStacks",
          "cloudformation:UpdateStack", "cloudformation:SetStackPolicy",
          "cloudformation:GetStackPolicy", "cloudformation:GetTemplate",
          "cloudformation:ListStacks">>,
        <<PipelineStackResource(e)>>)

PipelineChangeSetPermission ==
    Statement("PipelineChangeSetPermission",
        <<"cloudformation:ListChangeSets", "cloudformation:CreateChangeSet",
          "cloudformation:DescribeChangeSet", "cloudformation:ExecuteChangeSet",
          "cloudformation:DeleteChangeSet">>,
        <<<<"*">>>>)

DynamoDBResource ==
    <<"a","r","n",":","a","w","s",":","d","y","n","a","m","o","d","b",":">> \o Region \o <<":">> \o Account
        \o <<":","t","a","b","l","e","/","s","c","h","o","o","l","-","l","i","c","e","n","s","e","s","-","t","a","b","l","e">>

DynamoDBPermission ==
    Statement("DynamoDB",
        <<"dynamodb:CreateTable", "dynamodb:UpdateTable", "dynamodb:DescribeTable",
          "dynamodb:DeleteTable", "dynamodb:TagResource", "dynamodb:UntagResource",
          "dynamodb:UpdateContinuousBackups", "dynamodb:DescribeContinuousBackups">>,
        <<DynamoDBResource>>)

\* the bucket pattern narrowed to the infra- names
S3InfraBucketsOnly(e) == <<"a","r","n",":","a","w","s",":","s","3",":",":",":","s","l","e","-">> \o e \o <<"-","i","n","f","r","a","-","*">>

S3BucketResource(e) == <<"a","r","n",":","a","w","s",":","s","3",":",":",":","s","l","e","-">> \o e \o <<"-","*">>

S3ObjectResource(e) == <<"a","r","n",":","a","w","s",":","s","3",":",":",":","s","l","e","-">> \o e \o <<"-","*","/","*">>

S3ListPermissions(e) ==
    Statement("S3ListPermissions",
        <<"s3:ListBucket", "s3:GetObjectVersion", "s3:GetObject", "s3:PutObject",
          "s3:DeleteObject", "s3:TagResource", "s3:UntagResource",
          "s3:ListTagsForResource", "s3:PutBucketPublicAccessBlock">>,
        <<S3BucketResource(e), S3ObjectResource(e)>>)

UseConnectionStatement ==
    Statement("",
        <<"codestar-connections:UseConnection", "codestar-connections:GetConnection">>,
        <<ConnectionArn>>)

StartBuildStatement(project) ==
    Statement("", <<"codebuild:StartBuild", "codebuild:BatchGetBuilds">>,
        <<ProjectArn(project)>>)

ConnectionsResource ==
    <<"a","r","n",":","a","w","s",":","c","o","d","e","s","t","a","r","-","c","o","n","n","e","c","t","i","o","n","s",":">> \o Region \o <<":">> \o Account \o <<":","*">>

ApplicationPipelinePermissions ==
    Statement("ApplicationPipelinePermissions",
        <<"codeconnections:CreateConnection", "codeconnections:GetConnection",
          "codeconnections:DeleteConnection", "codeconnections:TagResource",
          "codeconnections:ListTagsForResource",
          "codestar-connections:PassConnection">>,
        <<ConnectionsResource>>)

CodeBuildAccessResource(e) ==
    <<"a","r","n",":","a","w","s",":","c","o","d","e","b","u","i","l","d",":">> \o Region \o <<":">> \o Account
        \o <<":","p","r","o","j","e","c","t","/","s","l","e","-">> \o e \o <<"-","*">>

CodeBuildAccess(e) ==
    Statement("CodeBuildAccess", <<"codebuild:CreateProject", "codebuild:DeleteProject">>,
        <<CodeBuildAccessResource(e)>>)

CodePipelineAccessResource(e) ==
    <<"a","r","n",":","a","w","s",":","c","o","d","e","p","i","p","e","l","i","n","e",":">> \o Region \o <<":">> \o Account \o <<":","s","l","e","-">> \o e \o <<"-","*">>

CodePipelineAccess(e) ==
    Statement("CodePipelineAccess",
        <<"codepipeline:CreatePipeline", "codepipeline:DeletePipeline",
          "codepipeline:TagResource", "codepipeline:UntagResource",
          "codepipeline:GetPipeline">>,
        <<CodePipelineAccessResource(e)>>)

SSMResource ==
    <<"a","r","n",":","a","w","s",":","s","s","m",":">> \o Region \o <<":">> \o Account \o <<":","p","a","r","a","m","e","t","e","r","/","c","d","k","-","b","o","o","t","s","t","r","a","p","*">>

SSMParameterStoreAccess ==
    Statement("SSMParameterStoreAccess",
        <<"ssm:GetParameter", "ssm:PutParameter", "ssm:DeleteParameter">>,
        <<SSMResource>>)

\* role.addToPolicy: the statement goes to the end of the role's policy
AddToPolicy(policy, statement) == Append(policy, statement)

\* a role that keeps the statements of the previous build
StaleRolePolicy == IF deployed = <<>> THEN <<>> ELSE deployed[1].codeBuildPolicy

\* a role just constructed has no statement
NewRolePolicy == <<>>

(* ------------------------------ pipeline ------------------------------ *)
Stage(stageName, actionName, kind, stackName, changeSetName, templatePath) ==
    [stageName |-> stageName, actionName |-> actionName, kind |-> kind,
     stackName |-> stackName, changeSetName |-> changeSetName,
     templatePath |-> templatePath]

\* the stages with the approval declared after the execution
StagesApprovalLast(e) ==
    << Stage("Source", "GitHubSource", "CodeStarConnectionsSource", <<>>, <<>>, <<>>),
       Stage("Build", "PackageTemplates", "CodeBuild", <<>>, <<>>, <<>>),
       Stage("CreateChangeSet", "CreateInfraChangeSet", "CreateReplaceChangeSet",
             InfraStackName(e), InfraChangeSetName(e), TemplatePath(e)),
       Stage("ExecuteChangeSet", "ExecuteInfraChangeSet", "ExecuteChangeSet",
             InfraStackName(e), InfraChangeSetName(e), <<>>),
       Stage("Approve", "ManualApproval", "ManualApproval", <<>>, <<>>, <<>>) >>

InfraPipelineStages(e) ==
    << Stage("Source", "GitHubSource", "CodeStarConnectionsSource", <<>>, <<>>, <<>>),
       Stage("Build", "PackageTemplates", "CodeBuild", <<>>, <<>>, <<>>),
       Stage("CreateChangeSet", "CreateInfraChangeSet", "CreateReplaceChangeSet",
             InfraStackName(e), InfraChangeSetName(e), TemplatePath(e)),
       Stage("Approve", "ManualApproval", "ManualApproval", <<>>, <<>>, <<>>),
       Stage("ExecuteChangeSet", "ExecuteInfraChangeSet", "ExecuteChangeSet",
             InfraStackName(e), InfraChangeSetName(e), <<>>) >>

(* ---------------------------- initial state --------------------------- *)
NoNames == [k \in {} |-> <<>>]

\* a new process: an empty construct tree, no pipeline execution yet
Init ==
    /\ pc = "start"
    /\ caller = "none"
    /\ context = Undefined
    /\ environment = Undefined
    /\ id = <<>>
    /\ names = NoNames
    /\ buildVars = NoNames
    /\ codeBuildPolicy = <<>>
    /\ pipelinePolicy = <<>>
    /\ stages = <<>>
    /\ outputs = NoNames
    /\ execState = "none"
    /\ execLog = <<>>
    /\ deployed = <<>>

build == <<names, buildVars, codeBuildPolicy, pipelinePolicy, stages, outputs>>
input == <<caller, context, environment, id>>
exec == <<execState, execLog>>

(* --------------------------- the entry point -------------------------- *)
\* the app entry point, run with the context value ctx
AppEntry(ctx) ==
    /\ pc = "start"
    /\ caller' = "bin"
    /\ context' = ctx
    /\ environment' = Or(ctx, <<"d","e","v">>)
    /\ id' = StackId(Or(ctx, <<"d","e","v">>))
    /\ pc' = "constructor"
    /\ UNCHANGED <<build, deployed, exec>>

\* another caller constructs the exported InfraStack with its own arguments
DirectConstruct(ctx, stackId, env) ==
    /\ pc = "start"
    /\ caller' = "direct"
    /\ context' = ctx
    /\ environment' = env
    /\ id' = stackId
    /\ pc' = "constructor"
    /\ UNCHANGED <<build, deployed, exec>>

(* ------------------------ InfraStack.constructor ---------------------- *)
Constructor ==
    /\ pc = "constructor"
    /\ names' = names @@ [table |-> TableName]
    /\ pc' = "buckets"
    /\ UNCHANGED <<input, buildVars, codeBuildPolicy, pipelinePolicy, stages,
                   outputs, deployed, exec>>

(* --------------------------- createInfraPipeline ---------------------- *)
\* the names are the strings the code interpolates and hands to the
\* constructs; the code checks neither their length nor their characters
DeclareBucketsAndConnection ==
    /\ pc = "buckets"
    /\ names' = names @@ [artifactBucket |-> InfraArtifactBucketName(environment),
                          packagingBucket |-> InfraPackagingBucketName(environment),
                          connection |-> InfraGitHubConnectionName(environment)]
    /\ pc' = "codeBuildRole"
    /\ UNCHANGED <<input, buildVars, codeBuildPolicy, pipelinePolicy, stages,
                   outputs, deployed, exec>>

InfraCodeBuildServiceRole ==
    /\ pc = "codeBuildRole"
    /\ codeBuildPolicy' =
         AddToPolicy(AddToPolicy(AddToPolicy(AddToPolicy(NewRolePolicy,
             CodeBuildLogsStatement(environment)),
             CodeBuildS3Statement(names.artifactBucket, names.packagingBucket)),
             CodeBuildCloudFormationStatement),
             CodeBuildPassRoleStatement(environment))
    /\ pc' = "codeBuildProject"
    /\ UNCHANGED <<input, names, buildVars, pipelinePolicy, stages, outputs,
                   deployed, exec>>

InfraCodeBuildProject ==
    /\ pc = "codeBuildProject"
    /\ names' = names @@ [project |-> InfraCodeBuildProjectName(environment)]
    /\ buildVars' = [PACKAGING_BUCKET |-> names.packagingBucket,
                     ENVIRONMENT |-> Or(context, environment)]
    /\ pc' = "pipelineRole"
    /\ UNCHANGED <<input, codeBuildPolicy, pipelinePolicy, stages, outputs,
                   deployed, exec>>

PipelineRoleStatements(e, project) ==
    << PipelineStackPermission(e), PipelineChangeSetPermission, DynamoDBPermission,
       S3ListPermissions(e), UseConnectionStatement, StartBuildStatement(project),
       ApplicationPipelinePermissions, CodeBuildAccess(e), CodePipelineAccess(e),
       SSMParameterStoreAccess >>

RECURSIVE AddAllToPolicy(_, _)
AddAllToPolicy(policy, statements) ==
    IF statements = <<>> THEN policy
    ELSE AddAllToPolicy(AddToPolicy(policy, Head(statements)), Tail(statements))

InfraCodePipelineExecutionRole ==
    /\ pc = "pipelineRole"
    /\ pipelinePolicy' =
         AddAllToPolicy(NewRolePolicy, PipelineRoleStatements(environment, names.project))
    /\ pc' = "pipeline"
    /\ UNCHANGED <<input, names, buildVars, codeBuildPolicy, stages, outputs,
                   deployed, exec>>

InfraPipeline ==
    /\ pc = "pipeline"
    /\ names' = names @@ [pipeline |-> InfraPipelineName(environment)]
    /\ stages' = InfraPipelineStages(environment)
    /\ pc' = "outputs"
    /\ UNCHANGED <<input, buildVars, codeBuildPolicy, pipelinePolicy, outputs,
                   deployed, exec>>

Outputs ==
    /\ pc = "outputs"
    /\ outputs' = [InfraCodeBuild |-> names.project,
                   InfraCodePipeline |-> names.pipeline]
    /\ pc' = "done"
    /\ UNCHANGED <<input, names, buildVars, codeBuildPolicy, pipelinePolicy, stages,
                   deployed, exec>>

(* --------------------- a run of the declared pipeline ----------------- *)
StartExecution ==
    /\ pc = "done"
    /\ execState = "none"
    /\ execState' = "running"
    /\ UNCHANGED <<pc, input, build, deployed, execLog>>

NextStage == stages[Len(execLog) + 1]

\* what is left after one more stage has completed
AfterStage == IF Len(execLog) + 1 = Len(stages) THEN "succeeded" ELSE "running"

\* the next stage in declared order runs; a manual approval waits for its answer
RunStage ==
    /\ execState = "running"
    /\ IF NextStage.kind = "ManualApproval"
       THEN execState' = "waiting" /\ UNCHANGED execLog
       ELSE execLog' = Append(execLog, NextStage) /\ execState' = AfterStage
    /\ UNCHANGED <<pc, input, build, deployed>>

ApprovalGranted ==
    /\ execState = "waiting"
    /\ execLog' = Append(execLog, NextStage)
    /\ execState' = AfterStage
    /\ UNCHANGED <<pc, input, build, deployed>>

ApprovalRejected ==
    /\ execState = "waiting"
    /\ execState' = "stopped"
    /\ UNCHANGED <<pc, input, build, deployed, execLog>>

StageFails ==
    /\ execState = "running"
    /\ execState' = "stopped"
    /\ UNCHANGED <<pc, input, build, deployed, execLog>>

(* ---------------------------- the next build -------------------------- *)
\* the entry point is run again, in a new process: what this build declared
\* stays deployed
NextBuild ==
    /\ pc = "done"
    /\ deployed' = << [environment |-> environment, names |-> names,
                       codeBuildPolicy |-> codeBuildPolicy,
                       pipelinePolicy |-> pipelinePolicy, stages |-> stages] >>
    /\ pc' = "start"
    /\ caller' = "none"
    /\ context' = Undefined
    /\ environment' = Undefined
    /\ id' = <<>>
    /\ names' = NoNames
    /\ buildVars' = NoNames
    /\ codeBuildPolicy' = <<>>
    /\ pipelinePolicy' = <<>>
    /\ stages' = <<>>
    /\ outputs' = NoNames
    /\ execState' = "none"
    /\ execLog' = <<>>

Next ==
    \/ \E ctx \in ContextValues : AppEntry(ctx)
    \/ \E ctx \in DirectEnvs \cup {Undefined}, i \in DirectEnvs, env \in DirectEnvs :
           DirectConstruct(ctx, StackId(i), env)
    \/ Constructor
    \/ DeclareBucketsAndConnection
    \/ InfraCodeBuildServiceRole
    \/ InfraCodeBuildProject
    \/ InfraCodePipelineExecutionRole
    \/ InfraPipeline
    \/ Outputs
    \/ StartExecution
    \/ RunStage
    \/ ApprovalGranted
    \/ ApprovalRejected
    \/ StageFails
    \/ NextBuild

Spec == Init /\ [][Next]_vars

(* ===================================================================== *)
(* Properties                                                            *)
(* ===================================================================== *)
Range(f) == {f[x] : x \in DOMAIN f}

LowerCase ==
    {"a", "b", "c", "d", "e", "f", "g", "h", "i", "j", "k", "l", "m",
     "n", "o", "p", "q", "r", "s", "t", "u", "v", "w", "x", "y", "z"}

UpperCase ==
    {"A", "B", "C", "D", "E", "F", "G", "H", "I", "J", "K", "L", "M",
     "N", "O", "P", "Q", "R", "S", "T", "U", "V", "W", "X", "Y", "Z"}

Digits == {"0", "1", "2", "3", "4", "5", "6", "7", "8", "9"}

\* the input constraint ^[a-z][a-z0-9-]*$
ValidEnvironment(e) ==
    /\ e # Undefined
    /\ Len(e) >= 1
    /\ e[1] \in LowerCase
    /\ \A i \in DOMAIN e : e[i] \in LowerCase \cup Digits \cup {"-"}

\* the build has run to its end
Built == pc = "done"

\* the environment-scoped names of a build
ScopedNames(n, st) ==
    {n.artifactBucket, n.packagingBucket, n.connection, n.project, n.pipeline,
     st[3].stackName, st[3].changeSetName, st[5].stackName, st[5].changeSetName}

\* the ARNs of the environment-scoped resources of a build
ResourceArns(n, st) ==
    {BucketArn(n.artifactBucket), BucketArn(n.packagingBucket), ProjectArn(n.project),
     PipelineArn(n.pipeline), StackArn(st[3].stackName), LogGroupArn(n.project)}

\* every resource pattern of a policy
Patterns(policy) == UNION {Range(policy[i].resources) : i \in DOMAIN policy}

\* the policy allows the action on the resource
Grants(policy, action, arn) ==
    \E i \in DOMAIN policy :
        /\ action \in Range(policy[i].actions)
        /\ \E r \in Range(policy[i].resources) : Matches(r, arn)

\* a build for another valid environment is deployed beside this one
TwoEnvironments ==
    /\ Built
    /\ deployed # <<>>
    /\ ValidEnvironment(environment)
    /\ ValidEnvironment(deployed[1].environment)
    /\ deployed[1].environment # environment

(* C1: for distinct valid environment tokens, no environment-scoped name   *)
(* (buckets, connection, project, pipeline, stack, change set) of one      *)
(* environment equals an environment-scoped name of the other.             *)
C1_NoCrossEnvironmentCollision ==
    TwoEnvironments =>
        ScopedNames(names, stages)
            \cap ScopedNames(deployed[1].names, deployed[1].stages) = {}

C1_Witness ==
    /\ TwoEnvironments
    /\ deployed[1].environment = <<"d","e","v">>
    /\ environment = <<"d","e","v","-","2">>
    /\ Cardinality(ScopedNames(names, stages)) = 7

(* C2: no environment-scoped wildcard pattern granted to a role of one      *)
(* valid environment matches a resource derived for another valid          *)
(* environment, a hyphen-delimited prefix of it included.                  *)
ScopedPatterns(d) ==
    {r \in Patterns(d.codeBuildPolicy) \cup Patterns(d.pipelinePolicy) :
        Contains(r, <<"s","l","e","-">> \o d.environment \o <<"-">>) /\ Contains(r, <<"*">>)}

C2_PatternsStayInOwnEnvironment ==
    TwoEnvironments =>
        \A r \in ScopedPatterns(deployed[1]) :
            \A arn \in ResourceArns(names, stages) : ~Matches(r, arn)

(* C3: every resource pattern of every statement of both roles contains    *)
(* the environment token, except in statements that hold only the          *)
(* documented exceptions: change-set description and listing, template     *)
(* validation, connection creation.                                        *)
DocumentedExceptions ==
    {"cloudformation:ListChangeSets", "cloudformation:DescribeChangeSet",
     "cloudformation:ValidateTemplate", "codeconnections:CreateConnection"}

EnvironmentInEveryPattern(policy) ==
    \A i \in DOMAIN policy :
        \/ \A r \in Range(policy[i].resources) : Contains(r, environment)
        \/ Range(policy[i].actions) \subseteq DocumentedExceptions

C3_EveryPatternNamesEnvironment ==
    Built =>
        /\ EnvironmentInEveryPattern(codeBuildPolicy)
        /\ EnvironmentInEveryPattern(pipelinePolicy)

(* C4: a token that does not match ^[a-z][a-z0-9-]*$ produces no resource  *)
(* name and no policy statement.                                           *)
GivenToken == IF caller = "bin" THEN context ELSE environment

TokenRejected ==
    \/ caller = "none"
    \/ caller = "bin" /\ context = Undefined
    \/ ValidEnvironment(GivenToken)
    \/ (names = NoNames /\ codeBuildPolicy = <<>> /\ pipelinePolicy = <<>>)

C4_InvalidEnvironmentRejected == TokenRejected

(* C5: the table is "school-licenses-table" for every token; the buckets,  *)
(* the project and the pipeline are sle-<e>-infra-artifacts,               *)
(* sle-<e>-packaging-bucket, sle-<e>-infra-codebuild and                   *)
(* sle-<e>-infra-pipeline; dev and prod give the sets of the scenarios.    *)
ScenarioNames(n) ==
    <<n.table, n.artifactBucket, n.packagingBucket, n.project, n.pipeline>>

C5_ExactNames ==
    Built =>
        /\ names.table = <<"s","c","h","o","o","l","-","l","i","c","e","n","s","e","s","-","t","a","b","l","e">>
        /\ names.artifactBucket = <<"s","l","e","-">> \o environment \o <<"-","i","n","f","r","a","-","a","r","t","i","f","a","c","t","s">>
        /\ names.packagingBucket = <<"s","l","e","-">> \o environment \o <<"-","p","a","c","k","a","g","i","n","g","-","b","u","c","k","e","t">>
        /\ names.project = <<"s","l","e","-">> \o environment \o <<"-","i","n","f","r","a","-","c","o","d","e","b","u","i","l","d">>
        /\ names.pipeline = <<"s","l","e","-">> \o environment \o <<"-","i","n","f","r","a","-","p","i","p","e","l","i","n","e">>
        /\ deployed # <<>> => deployed[1].names.table = names.table
        /\ environment = <<"d","e","v">> =>
             ScenarioNames(names) =
                 <<<<"s","c","h","o","o","l","-","l","i","c","e","n","s","e","s","-","t","a","b","l","e">>, <<"s","l","e","-","d","e","v","-","i","n","f","r","a","-","a","r","t","i","f","a","c","t","s">>,
                   <<"s","l","e","-","d","e","v","-","p","a","c","k","a","g","i","n","g","-","b","u","c","k","e","t">>, <<"s","l","e","-","d","e","v","-","i","n","f","r","a","-","c","o","d","e","b","u","i","l","d">>,
                   <<"s","l","e","-","d","e","v","-","i","n","f","r","a","-","p","i","p","e","l","i","n","e">>>>
        /\ environment = <<"p","r","o","d">> =>
             ScenarioNames(names) =
                 <<<<"s","c","h","o","o","l","-","l","i","c","e","n","s","e","s","-","t","a","b","l","e">>, <<"s","l","e","-","p","r","o","d","-","i","n","f","r","a","-","a","r","t","i","f","a","c","t","s">>,
                   <<"s","l","e","-","p","r","o","d","-","p","a","c","k","a","g","i","n","g","-","b","u","c","k","e","t">>, <<"s","l","e","-","p","r","o","d","-","i","n","f","r","a","-","c","o","d","e","b","u","i","l","d">>,
                   <<"s","l","e","-","p","r","o","d","-","i","n","f","r","a","-","p","i","p","e","l","i","n","e">>>>

C5_Witness ==
    /\ Built
    /\ environment = <<"p","r","o","d">>
    /\ deployed # <<>>
    /\ deployed[1].environment = <<"d","e","v">>
    /\ names.packagingBucket = <<"s","l","e","-","p","r","o","d","-","p","a","c","k","a","g","i","n","g","-","b","u","c","k","e","t">>

(* C6: for a valid token every declared bucket name is lower-case and at   *)
(* most 63 characters long.                                                *)
FitsBucketLimits(name) ==
    /\ Len(name) <= 63
    /\ \A i \in DOMAIN name : name[i] \notin UpperCase

C6_BucketNamesFit ==
    (ValidEnvironment(environment) /\ "artifactBucket" \in DOMAIN names) =>
        /\ FitsBucketLimits(names.artifactBucket)
        /\ FitsBucketLimits(names.packagingBucket)

StageNames(st) == [i \in DOMAIN st |-> st[i].stageName]

ExecutedAfterCreateAndApproval ==
    \A i \in DOMAIN execLog :
        execLog[i].kind = "ExecuteChangeSet" =>
            \E j \in 1..(i - 1) :
                /\ execLog[j].kind = "CreateReplaceChangeSet"
                /\ execLog[j].stackName = execLog[i].stackName
                /\ execLog[j].changeSetName = execLog[i].changeSetName
                /\ \E k \in (j + 1)..(i - 1) : execLog[k].kind = "ManualApproval"

C8_ChangeSetExecutedAfterApproval ==
    Built =>
        /\ StageNames(stages) =
               <<"Source", "Build", "CreateChangeSet", "Approve", "ExecuteChangeSet">>
        /\ stages[3].stackName = <<"s","l","e","-">> \o environment \o <<"-","i","n","f","r","a","-","c","f">>
        /\ stages[3].changeSetName = <<"s","l","e","-">> \o environment \o <<"-","i","n","f","r","a","-","c","h","a","n","g","e","s","e","t">>
        /\ stages[5].stackName = stages[3].stackName
        /\ stages[5].changeSetName = stages[3].changeSetName
        /\ ExecutedAfterCreateAndApproval

C8_Witness ==
    /\ Built
    /\ execState = "succeeded"
    /\ Len(execLog) = 5
    /\ execLog[5].kind = "ExecuteChangeSet"
    /\ execLog[5].stackName = <<"s","l","e","-","p","r","o","d","-","i","n","f","r","a","-","c","f">>

(* C9: every environment-scoped resource of a build is covered by the      *)
(* pattern granted for the same build: both buckets by the S3 pattern, the *)
(* project by the CodeBuild pattern, the pipeline by the CodePipeline      *)
(* pattern, the stack by the stack pattern, the log group by the log-group *)
(* pattern of the CodeBuild role.                                          *)
C9_OwnResourcesCovered ==
    Built =>
        /\ Grants(pipelinePolicy, "s3:PutBucketPublicAccessBlock",
                  BucketArn(names.artifactBucket))
        /\ Grants(pipelinePolicy, "s3:PutBucketPublicAccessBlock",
                  BucketArn(names.packagingBucket))
        /\ Grants(pipelinePolicy, "codebuild:CreateProject", ProjectArn(names.project))
        /\ Grants(pipelinePolicy, "codepipeline:CreatePipeline",
                  PipelineArn(names.pipeline))
        /\ Grants(pipelinePolicy, "cloudformation:CreateStack",
                  StackArn(stages[3].stackName))
        /\ Grants(codeBuildPolicy, "logs:CreateLogGroup", LogGroupArn(names.project))

C9_Witness ==
    /\ Built
    /\ environment = <<"d","e","v","-","2">>
    /\ Matches(<<"a","r","n",":","a","w","s",":","s","3",":",":",":","s","l","e","-","d","e","v","-","2","-","*">>, BucketArn(names.packagingBucket))
    /\ <<"a","r","n",":","a","w","s",":","s","3",":",":",":","s","l","e","-","d","e","v","-","2","-","*">> \in Patterns(pipelinePolicy)

(* C10: one token throughout a built stack: the ENVIRONMENT build          *)
(* variable, the stack id, the template path and the sle-<env>-* names all *)
(* use the same token, whatever the context value and the environment      *)
(* property; with no context value the entry point uses "dev".             *)
C10_OneTokenThroughout ==
    Built =>
        /\ buildVars.ENVIRONMENT = environment
        /\ id = <<"s","l","e","-","i","n","f","r","a","s","t","r","u","c","t","u","r","e","-">> \o environment
        /\ stages[3].templatePath =
               <<"s","l","e","-","i","n","f","r","a","s","t","r","u","c","t","u","r","e","-">> \o environment \o <<".","t","e","m","p","l","a","t","e",".","j","s","o","n">>
        /\ names.project = <<"s","l","e","-">> \o environment \o <<"-","i","n","f","r","a","-","c","o","d","e","b","u","i","l","d">>
        /\ (caller = "bin" /\ context = Undefined) => environment = <<"d","e","v">>

=============================================================================
